---- MODULE Spec2Model ----
(***************************************************************************)
(* Model of the batch rewrite pipeline of src/rewriter.py: process_batch   *)
(* (the Batch Orchestrator), check_duplicate_article (the Duplicate        *)
(* Checker) and the part of rewrite_article (the Rewrite Transform) that   *)
(* decides what is persisted.  One orchestrator run is a sequence of       *)
(* steps, one per store operation or transform call, so that every point   *)
(* where the code can fail or be interrupted is a state of the model.      *)
(* Two concurrent runs are a second specification.  The functions that     *)
(* the transform is made of (slugify, generate_summary, the Generation     *)
(* Adapter, format_full_text_with_html) and the transform itself are       *)
(* operators on strings, a string being the sequence of its characters,    *)
(* and a third specification calls each of them, and the fetch of          *)
(* process_batch, on each input tried.  Runs repeated without end, under   *)
(* weak fairness, are a further specification.                             *)
(***************************************************************************)
EXTENDS Integers, Sequences, FiniteSets, TLC

\* ---------------------------------------------------------------- bounds
NumDocs == 2        \* documents in the source collection
MaxLimit == 2       \* largest --limit tried
MaxRuns == 2        \* invocations of process_batch in one behaviour
MaxFaults == 1      \* failing calls and interruptions in one behaviour
MaxDest == 2        \* destination records when the Duplicate Checker is called alone
MaxSlugText == 3    \* longest text given to slugify
MaxSlugLen == 3     \* largest small max_len given to slugify
MaxSummaryText == 4 \* longest enumerated text given to generate_summary
MaxSummaryLimit == 2 \* largest small char_limit given to generate_summary
MaxTagReply == 7    \* longest enumerated backend reply to the tags prompt
MaxCategoryReply == 3 \* longest enumerated backend reply to the category prompt
MaxBody == 2        \* longest enumerated source body

\* ------------------------------------------------------ program constants
TITLE_CAP == 160    \* rewritten_title[:160]
DEFAULT_SLEEP == 3  \* --sleep when it is not given
SLUG_MAX_LEN == 80  \* slugify(s, max_len=80)
SUMMARY_LIMIT == 140 \* generate_summary(full_text, char_limit=140)
CHUNK_SIZE == 1200  \* chunk_size of rewrite_article
HEADING_MAX == 80   \* len(line) < 80 of format_full_text_with_html

Docs == 1..NumDocs

\* The source items tried, as (link, title).  Titles are sequences of
\* characters, so that str.strip() is computed: an item with a link, items
\* without a link whose title is or is not changed by strip(), and an item
\* with neither link nor title.
SrcItems ==
    {[link |-> "https://x/1", title |-> <<"A">>, processed |-> FALSE],
     [link |-> "", title |-> <<"A">>, processed |-> FALSE],
     [link |-> "", title |-> <<" ", "A">>, processed |-> FALSE],
     [link |-> "", title |-> << >>, processed |-> FALSE]}

\* What generate_text returns for the title prompt: "" (no session, backend
\* failure, empty reply) or a generated title.
AITitles == {<< >>, <<"B">>}

Min(a, b) == IF a <= b THEN a ELSE b

\* ------------------------------------------------------------ pure helpers
\* A string is the sequence of its characters.
Whitespace == {" ", "\n", "\t"}

\* str.lstrip(chars)
RECURSIVE LStripChars(_, _)
LStripChars(s, chars) ==
    IF s # << >> /\ Head(s) \in chars THEN LStripChars(Tail(s), chars) ELSE s

\* str.rstrip(chars)
RECURSIVE RStripChars(_, _)
RStripChars(s, chars) ==
    IF s # << >> /\ s[Len(s)] \in chars
    THEN RStripChars(SubSeq(s, 1, Len(s) - 1), chars) ELSE s

LStrip(s) == LStripChars(s, Whitespace)

RStrip(s) == RStripChars(s, Whitespace)

\* str.strip()
Strip(s) == RStrip(LStrip(s))

\* s[:n]
Take(s, n) == SubSeq(s, 1, Min(n, Len(s)))

\* ---------------------------------------------------------------- slugify
ASCII_UPPER == <<"A", "B", "C", "D", "E", "F", "G", "H", "I", "J", "K", "L", "M",
                 "N", "O", "P", "Q", "R", "S", "T", "U", "V", "W", "X", "Y", "Z">>

ASCII_LOWER == <<"a", "b", "c", "d", "e", "f", "g", "h", "i", "j", "k", "l", "m",
                 "n", "o", "p", "q", "r", "s", "t", "u", "v", "w", "x", "y", "z">>

DIGITS == {"0", "1", "2", "3", "4", "5", "6", "7", "8", "9"}

\* [A-Za-z0-9]
AlNum ==
    {ASCII_UPPER[i] : i \in DOMAIN ASCII_UPPER}
        \cup {ASCII_LOWER[i] : i \in DOMAIN ASCII_LOWER} \cup DIGITS

\* str.lower() of one character (of the characters left by the regular
\* expression, only the ASCII capitals change).
LowerChar(c) ==
    IF \E i \in DOMAIN ASCII_UPPER : ASCII_UPPER[i] = c
    THEN ASCII_LOWER[CHOOSE i \in DOMAIN ASCII_UPPER : ASCII_UPPER[i] = c]
    ELSE c

Lower(s) == [i \in DOMAIN s |-> LowerChar(s[i])]

\* unicodedata.normalize("NFKD", c) for the characters tried: an accented
\* letter becomes its base letter followed by a combining mark ("´" stands
\* for the combining acute accent).
NFKD(c) == IF c = "é" THEN <<"e", "´">> ELSE <<c>>

Combining == {"´"}

\* "".join(c for c in normalize("NFKD", s) if not combining(c)), computed
\* on the two halves of s.
RECURSIVE strip_diacritics(_)
strip_diacritics(s) ==
    IF s = << >> THEN << >>
    ELSE IF Len(s) = 1 THEN SelectSeq(NFKD(s[1]), LAMBDA c : c \notin Combining)
    ELSE LET half == Len(s) \div 2
         IN  strip_diacritics(SubSeq(s, 1, half))
                \o strip_diacritics(SubSeq(s, half + 1, Len(s)))

\* re.sub(r"[^A-Za-z0-9]+", "-", s): every maximal run of other characters
\* becomes one hyphen, put in the place of the first character of the run;
\* the other characters of the run are dropped.
Hyphenate(s) ==
    LET marked == [i \in DOMAIN s |->
                     IF s[i] \in AlNum THEN s[i]
                     ELSE IF i = 1 \/ s[i - 1] \in AlNum THEN "-"
                     ELSE "dropped"]
    IN  SelectSeq(marked, LAMBDA c : c # "dropped")

FALLBACK_SLUG == <<"a", "r", "t", "i", "k", "e", "l">>

\* slugify without the cut at max_len.
slugify_uncut(s, max_len) ==
    LET plain == SelectSeq(strip_diacritics(s), LAMBDA c : c # "'")
        slug == Lower(RStripChars(LStripChars(Hyphenate(plain), {"-"}), {"-"}))
        cut == RStripChars(slug, {"-"})
    IN  IF cut # << >> THEN cut ELSE FALLBACK_SLUG

\* slugify(s, max_len)
slugify(s, max_len) ==
    LET plain == SelectSeq(strip_diacritics(s), LAMBDA c : c # "'")
        slug == Lower(RStripChars(LStripChars(Hyphenate(plain), {"-"}), {"-"}))
        cut == RStripChars(Take(slug, max_len), {"-"})
    IN  IF cut # << >> THEN cut ELSE FALLBACK_SLUG

\* ------------------------------------------------------- generate_summary
ELLIPSIS == <<".", ".", ".">>

\* The least element of a non-empty set of integers.
MinOf(S) == CHOOSE i \in S : \A k \in S : i <= k

\* The greatest element of a non-empty set of integers.
MaxOf(S) == CHOOSE i \in S : \A k \in S : k <= i

\* The position of the first ">" after position i of s, or 0.
CloseAfter(s, i) ==
    LET closers == {j \in (i + 1)..Len(s) : s[j] = ">"}
    IN  IF closers = {} THEN 0 ELSE MinOf(closers)

\* re.sub(r"<[^>]+>", " ", s): the leftmost "<" that is followed by at least
\* one character other than ">" and then by a ">" is replaced, up to that
\* first ">", by one space, and the scan goes on after it.
RECURSIVE StripTags(_)
StripTags(s) ==
    LET opens == {i \in DOMAIN s : s[i] = "<" /\ CloseAfter(s, i) >= i + 2}
    IN  IF opens = {} THEN s
        ELSE LET open == MinOf(opens)
             IN  SubSeq(s, 1, open - 1) \o <<" ">>
                    \o StripTags(SubSeq(s, CloseAfter(s, open) + 1, Len(s)))

\* cut.rsplit(" ", 1)[0]
RSplitHead(cut) ==
    LET spaces == {i \in DOMAIN cut : cut[i] = " "}
    IN  IF spaces = {} THEN cut
        ELSE SubSeq(cut, 1, MaxOf(spaces) - 1)

\* A summary that keeps the word the limit falls in whole.
generate_summary_whole_word(full_text, char_limit) ==
    LET plain == Strip(StripTags(full_text))
        after == {i \in (char_limit + 1)..Len(plain) : plain[i] = " "}
        stop == IF after = {} THEN Len(plain) ELSE MinOf(after) - 1
    IN  IF Len(plain) <= char_limit THEN plain
        ELSE SubSeq(plain, 1, stop) \o ELLIPSIS

\* generate_summary(full_text, char_limit)
generate_summary(full_text, char_limit) ==
    LET plain == Strip(StripTags(full_text))
        cut == Take(plain, char_limit)
    IN  IF Len(plain) <= char_limit THEN plain
        ELSE IF cut # << >> /\ cut[Len(cut)] = " "
                   /\ SubSeq(plain, char_limit + 1, Len(plain)) # << >>
            THEN RStrip(cut) \o ELLIPSIS
        ELSE RSplitHead(cut) \o ELLIPSIS

\* ----------------------------------------------------- Generation Adapter
\* What _ai_client.chat.completions.create does when it is called: it
\* raises, it returns a response without choices or without content, or it
\* returns a response with a text.
Raises == [kind |-> "raise", content |-> << >>]

Absent == [kind |-> "absent", content |-> << >>]

Reply(text) == [kind |-> "text", content |-> text]

\* resp.choices[0].message.content if resp and resp.choices else "", then
\* (content or ...)
ContentOf(resp) == IF resp.kind = "text" THEN resp.content ELSE << >>

\* generate_text that returns its prompt when there is no session.
generate_text_echo(session, resp) ==
    IF ~session THEN <<"p", "r", "o", "m", "p", "t">>
    ELSE IF resp.kind = "raise" THEN << >>
    ELSE Strip(ContentOf(resp))

\* generate_text that lets the exception of the backend call through.
generate_text_unguarded(session, resp) ==
    IF ~session THEN << >>
    ELSE IF resp.kind = "raise" THEN <<"Traceback">>
    ELSE Strip(ContentOf(resp))

\* generate_text(prompt, style, language, max_tokens); session: _ai_client
\* and _ai_model are set; resp: what the backend call does.
generate_text(session, resp) ==
    IF ~session THEN << >>
    ELSE IF resp.kind = "raise" THEN << >>
    ELSE Strip(ContentOf(resp))

NIEUWS == <<"N", "i", "e", "u", "w", "s">>

\* The categories named in the system prompt of get_category.
CATEGORIES ==
    {<<"P", "o", "l", "i", "t", "i", "e", "k">>,
     <<"S", "p", "o", "r", "t">>,
     <<"E", "c", "o", "n", "o", "m", "i", "e">>,
     <<"G", "e", "z", "o", "n", "d", "h", "e", "i", "d">>,
     <<"T", "e", "c", "h", "n", "o", "l", "o", "g", "i", "e">>,
     <<"C", "u", "l", "t", "u", "u", "r">>,
     <<"O", "n", "d", "e", "r", "w", "i", "j", "s">>,
     <<"M", "i", "l", "i", "e", "u">>,
     <<"I", "n", "t", "e", "r", "n", "a", "t", "i", "o", "n", "a", "a", "l">>,
     NIEUWS}

\* str.split()[0]: the first whitespace-delimited word, or << >> when there
\* is none (where Python raises IndexError).
FirstWord(s) ==
    LET t == LStrip(s)
        ws == {i \in DOMAIN t : t[i] \in Whitespace}
    IN  IF ws = {} THEN t ELSE SubSeq(t, 1, MinOf(ws) - 1)

\* get_category(full_text, language)
get_category(session, resp) ==
    IF ~session THEN NIEUWS
    ELSE IF resp.kind = "raise" THEN NIEUWS
    ELSE LET content == ContentOf(resp)
             text == Strip(IF content # << >> THEN content ELSE NIEUWS)
         IN  IF FirstWord(text) = << >> THEN NIEUWS    \* IndexError, caught
             ELSE FirstWord(text)

FALLBACK_TAGS ==
    <<<<"N", "e", "d", "e", "r", "l", "a", "n", "d">>,
      NIEUWS,
      <<"A", "c", "t", "u", "e", "e", "l">>>>

\* str.split(sep)
RECURSIVE Split(_, _)
Split(s, sep) ==
    LET at == {i \in DOMAIN s : s[i] = sep}
    IN  IF at = {} THEN <<s>>
        ELSE <<SubSeq(s, 1, MinOf(at) - 1)>>
                \o Split(SubSeq(s, MinOf(at) + 1, Len(s)), sep)

\* [t.strip() for t in content.split(",")], then [t for t in tags if t]
TagTokens(content) ==
    LET parts == Split(content, ",")
    IN  SelectSeq([i \in DOMAIN parts |-> Strip(parts[i])], LAMBDA t : t # << >>)

\* get_tags that accepts a reply of exactly three tokens only.
get_tags_exactly_three(session, resp) ==
    IF ~session THEN FALLBACK_TAGS
    ELSE IF resp.kind = "raise" THEN FALLBACK_TAGS
    ELSE LET content == ContentOf(resp)
         IN  IF Len(Split(content, ",")) = 3 /\ Len(TagTokens(content)) = 3
             THEN TagTokens(content)
             ELSE FALLBACK_TAGS

\* get_tags(full_text, language)
get_tags(session, resp) ==
    IF ~session THEN FALLBACK_TAGS
    ELSE IF resp.kind = "raise" THEN FALLBACK_TAGS
    ELSE LET content == ContentOf(resp)
             tags == Take(TagTokens(content), 3)
         IN  IF content # << >> /\ \E i \in DOMAIN content : content[i] = ","
             THEN IF Len(tags) = 3 THEN tags ELSE FALLBACK_TAGS
             ELSE FALLBACK_TAGS

\* ------------------------------------------- format_full_text_with_html
PLACEHOLDER ==
    <<"<", "p", ">", "G", "e", "e", "n", " ", "i", "n", "h", "o", "u",
        "d", " ", "b", "e", "s", "c", "h", "i", "k", "b", "a", "a",
        "r", ".", "<", "/", "p", ">">>

\* pat in s
Contains(s, pat) ==
    \E i \in 1..(Len(s) - Len(pat) + 1) : SubSeq(s, i, i + Len(pat) - 1) = pat

\* [line.strip() for line in text.split("\n") if line.strip()]
NonBlankLines(text) ==
    LET parts == Split(text, "\n")
    IN  SelectSeq([i \in DOMAIN parts |-> Strip(parts[i])], LAMBDA l : l # << >>)

\* The loop over enumerate(lines), from index i (counted from 0) on.
RECURSIVE HtmlParts(_, _)
HtmlParts(lines, i) ==
    IF i >= Len(lines) THEN << >>
    ELSE LET line == lines[i + 1]
             h3 == <<"<", "h", "3", ">">> \o line \o <<"<", "/", "h", "3", ">">>
             para == <<"<", "p", ">">> \o line \o <<"<", "/", "p", ">">>
             br == <<"<", "b", "r", ">", "<", "b", "r", ">">>
         IN  (IF Len(line) < HEADING_MAX /\ i > 0 THEN <<h3>>
              ELSE IF (i + 1) % 2 = 0 THEN <<para, br>>
              ELSE <<para>>) \o HtmlParts(lines, i + 1)

\* sep.join(parts)
RECURSIVE Join(_, _)
Join(parts, sep) ==
    IF parts = << >> THEN << >>
    ELSE IF Len(parts) = 1 THEN parts[1]
    ELSE parts[1] \o sep \o Join(Tail(parts), sep)

\* format_full_text_with_html(text)
format_full_text_with_html(text) ==
    IF text = << >> THEN PLACEHOLDER
    ELSE IF Contains(text, <<"<", "p">>) \/ Contains(text, <<"<", "h", "3">>) THEN text
    ELSE Join(HtmlParts(NonBlankLines(text), 0), <<"\n">>)

\* rewrite_article: the fields of the payload that the orchestrator and the
\* Duplicate Checker read.  aiTitle is generate_text's reply to the title
\* prompt.
rewrite_article(article, aiTitle) ==
    LET original_title == Strip(article.title)
        generated == Strip(aiTitle)
        rewritten_title == IF generated # << >> THEN generated ELSE original_title
    IN  [link |-> article.link,
         title |-> Take(rewritten_title, TITLE_CAP),
         processed |-> TRUE]

\* The number of chunks of rewrite_article's loop over the body.
NumChunks(body) == (Len(body) + CHUNK_SIZE - 1) \div CHUNK_SIZE

\* The loop of lines 398-406 from chunk k on: rewritten_body += (out or "")
\* + " ".  chunks[k] is what the backend does when it is called for chunk k.
RECURSIVE RewriteChunks(_, _, _, _)
RewriteChunks(body, session, chunks, k) ==
    IF k > NumChunks(body) THEN << >>
    ELSE generate_text(session, chunks[k]) \o <<" ">>
            \o RewriteChunks(body, session, chunks, k + 1)

\* rewrite_article(article, style, language): the payload, without the
\* fields that are derived from the ones below (urls, share, jsonld) or
\* copied from the arguments.  be: what the backend does at each call.
rewrite_article_payload(article, session, be) ==
    LET original_title == Strip(article.title)
        original_body == article.body
        joined == Strip(RewriteChunks(original_body, session, be.chunks, 1))
        rewritten_body == IF joined # << >> THEN joined ELSE original_body
        formatted_body == format_full_text_with_html(rewritten_body)
        base == rewrite_article(article, generate_text(session, be.title))
        cat == get_category(session, be.category)
        tgs == get_tags(session, be.tags)
    IN  [title |-> base.title,
         original_title |-> original_title,
         link |-> base.link,
         summary |-> generate_summary(formatted_body, SUMMARY_LIMIT),
         full_text |-> formatted_body,
         slug |-> slugify(base.title, SLUG_MAX_LEN),
         category |-> IF cat # << >> THEN cat ELSE NIEUWS,
         tags |-> IF tgs # << >> THEN tgs ELSE FALLBACK_TAGS,
         processed |-> base.processed]

NotDuplicate == [dupe |-> FALSE, reason |-> "none"]

\* A fail-closed checker: a failing query is reported as a duplicate.
check_duplicate_article_fail_closed(d, link, title, linkRaises, titleRaises) ==
    IF link # "" /\ linkRaises THEN [dupe |-> TRUE, reason |-> "link"]
    ELSE IF link # "" /\ \E k \in DOMAIN d : d[k].link = link
        THEN [dupe |-> TRUE, reason |-> "link"]
    ELSE IF title # << >> /\ titleRaises THEN [dupe |-> TRUE, reason |-> "title"]
    ELSE IF title # << >> /\ \E k \in DOMAIN d : d[k].title = title
        THEN [dupe |-> TRUE, reason |-> "title"]
    ELSE NotDuplicate

\* A checker that matches on the title alone.
check_duplicate_article_title_only(d, link, title, linkRaises, titleRaises) ==
    IF title # << >> /\ titleRaises THEN NotDuplicate
    ELSE IF title # << >> /\ \E k \in DOMAIN d : d[k].title = title
        THEN [dupe |-> TRUE, reason |-> "title"]
    ELSE NotDuplicate

\* A checker that issues the title query before the link query.
check_duplicate_article_title_first(d, link, title, linkRaises, titleRaises) ==
    IF title # << >> /\ titleRaises THEN NotDuplicate
    ELSE IF title # << >> /\ \E k \in DOMAIN d : d[k].title = title
        THEN [dupe |-> TRUE, reason |-> "title"]
    ELSE IF link # "" /\ linkRaises THEN NotDuplicate
    ELSE IF link # "" /\ \E k \in DOMAIN d : d[k].link = link
        THEN [dupe |-> TRUE, reason |-> "link"]
    ELSE NotDuplicate

\* check_duplicate_article(db, collection, link, title) against the
\* destination records d.  linkRaises / titleRaises: the link / title query
\* raises when it is issued.
check_duplicate_article(d, link, title, linkRaises, titleRaises) ==
    IF link # "" /\ linkRaises THEN NotDuplicate
    ELSE IF link # "" /\ \E k \in DOMAIN d : d[k].link = link
        THEN [dupe |-> TRUE, reason |-> "link"]
    ELSE IF title # << >> /\ titleRaises THEN NotDuplicate
    ELSE IF title # << >> /\ \E k \in DOMAIN d : d[k].title = title
        THEN [dupe |-> TRUE, reason |-> "title"]
    ELSE NotDuplicate

\* Whether a query of check_duplicate_article raised (history only): the
\* title query is issued only when the link query did not match.
LookupRaised(d, link, title, linkRaises, titleRaises) ==
    \/ link # "" /\ linkRaises
    \/ /\ ~(link # "" /\ \E k \in DOMAIN d : d[k].link = link)
       /\ title # << >> /\ titleRaises

Unprocessed(src) == {d \in Docs : src[d].processed = FALSE}

\* where("processed", "==", False) on one document: the field is there and
\* is False.  A document without the field is a record without it.
ProcessedIsFalse(item) == "processed" \in DOMAIN item /\ item.processed = FALSE

\* not data.get("processed"): the field is missing, or it is False.
NotProcessed(item) == "processed" \notin DOMAIN item \/ ~item.processed

\* .where("processed", "==", False).limit(limit).get(), in document order.
RECURSIVE FilteredQuery(_, _, _)
FilteredQuery(src, limit, d) ==
    IF d > NumDocs \/ limit <= 0 THEN << >>
    ELSE IF ProcessedIsFalse(src[d])
        THEN <<d>> \o FilteredQuery(src, limit - 1, d + 1)
        ELSE FilteredQuery(src, limit, d + 1)

\* The full-scan fallback: append when unprocessed, then test the length.
RECURSIVE FullScan(_, _, _, _)
FullScan(src, limit, d, acc) ==
    IF d > NumDocs THEN acc
    ELSE LET acc2 == IF NotProcessed(src[d]) THEN Append(acc, d) ELSE acc
         IN  IF Len(acc2) >= limit THEN acc2 ELSE FullScan(src, limit, d + 1, acc2)

\* The number of documents that the loop of the full scan has gone through
\* when it ends.
RECURSIVE FullScanReads(_, _, _, _)
FullScanReads(src, limit, d, acc) ==
    IF d > NumDocs THEN NumDocs
    ELSE LET acc2 == IF NotProcessed(src[d]) THEN Append(acc, d) ELSE acc
         IN  IF Len(acc2) >= limit THEN d ELSE FullScanReads(src, limit, d + 1, acc2)

\* Lines 559-571: the filtered query, or the full scan when the query
\* raises.
fetch(src, limit, queryOk) ==
    IF queryOk THEN FilteredQuery(src, limit, 1) ELSE FullScan(src, limit, 1, << >>)

\* A write that replaces the whole source document by {"processed": True}.
SetProcessedReplaces(src, id) ==
    [src EXCEPT ![id] = [link |-> "", title |-> << >>, processed |-> TRUE]]

\* update({"processed": True}) that leaves the flag as it was.
SetProcessedLost(src, id) == src

\* db.collection(source).document(id).update({"processed": True})
SetProcessed(src, id) == [src EXCEPT ![id].processed = TRUE]

\* The "slug" of a persisted record: title_slug = slugify(rewritten_title),
\* where rewritten_title is the record's "title".
SlugOf(rec) == slugify(rec.title, SLUG_MAX_LEN)

\* build_urls(slug)["canonical"], after the base URL.
canonical(slug) == <<"/", "article", "/">> \o slug

\* out_path of write_static_article, below output_base.
out_path(rec) == <<"article", SlugOf(rec), "index.html">>

\* ------------------------------------------------------------------ state
VARIABLES
    source,           \* source collection: doc id -> [link, title, processed]
    dest,             \* destination collection, in insertion order
    pc,               \* position of the orchestrator
    cfg,              \* arguments of the current process_batch call
    docs,             \* the fetched documents (ids), in fetch order
    idx,              \* enumerate(docs, start=1)
    processed_count,
    duplicate_count,
    error_count,
    rewritten,        \* the payload returned by rewrite_article
    runs,             \* number of invocations so far
    faults,           \* failing calls and interruptions so far
    cur,              \* history of the item being handled
    hist,             \* history of the current run
    call,             \* one call of a function of the module: input and result
    workers           \* concurrent invocations of process_batch

vars == <<source, dest, pc, cfg, docs, idx, processed_count, duplicate_count,
          error_count, rewritten, runs, faults, cur, hist, call, workers>>

\* limit is read by the fetch alone and is not kept.
NoConfig == [dry_run |-> FALSE, write_static |-> FALSE, sleep_s |-> 0]

NoPayload == [link |-> "", title |-> << >>, processed |-> FALSE]

NoItem == [dupe |-> FALSE, raised |-> FALSE, linkHit |-> FALSE, prior |-> FALSE,
           rewrote |-> FALSE, fault |-> "none", d0 |-> 0, c0 |-> <<0, 0, 0>>]

\* quota: min(limit, number of unprocessed source documents) at the fetch.
\* pauses: the positions in docs after which the run slept, in order.
NoRun == [src0 |-> << >>, dest0 |-> << >>, quota |-> 0, transformed |-> {},
          errIds |-> {}, handled |-> {}, pauses |-> << >>]

\* No function call is being observed.
NoCall == [fn |-> "none", done |-> FALSE]

Counters == <<processed_count, duplicate_count, error_count>>

Running == {"next", "check", "dupmark", "rewrite", "save", "mark", "static", "pace"}

Init ==
    /\ source \in [Docs -> SrcItems]
    /\ dest = << >>
    /\ pc = "idle"
    /\ cfg = NoConfig
    /\ docs = << >>
    /\ idx = 0
    /\ processed_count = 0
    /\ duplicate_count = 0
    /\ error_count = 0
    /\ rewritten = NoPayload
    /\ runs = 0
    /\ faults = 0
    /\ cur = NoItem
    /\ hist = NoRun
    /\ call = NoCall
    /\ workers = << >>

\* ---------------------------------------------------------------- actions
\* A call that may raise: ok is its outcome, and a failure uses up one of
\* the failures the behaviour may contain.
MayFail(ok) ==
    /\ ok \/ faults < MaxFaults
    /\ faults' = IF ok THEN faults ELSE faults + 1

\* Lines 559-577: fetch up to limit unprocessed documents (the filtered
\* query, or the full scan when the query raises) and reset the counters.
\* write_static is read at line 616 only, on the non-dry-run branch, so it
\* is tried only there.  delays: the values of --sleep tried.
StartRunWith(delays) ==
    /\ pc \in {"idle", "done", "crashed"}
    /\ runs < MaxRuns
    /\ \E limit \in 0..MaxLimit, dry \in BOOLEAN, static \in BOOLEAN, queryOk \in BOOLEAN,
          sleep_s \in delays :
        /\ dry => ~static
        /\ cfg' = [dry_run |-> dry, write_static |-> static, sleep_s |-> sleep_s]
        /\ hist' = [NoRun EXCEPT !.src0 = source, !.dest0 = dest,
                                  !.quota = Min(limit, Cardinality(Unprocessed(source)))]
        /\ docs' = fetch(source, limit, queryOk)
    /\ idx' = 0
    /\ processed_count' = 0
    /\ duplicate_count' = 0
    /\ error_count' = 0
    /\ rewritten' = NoPayload
    /\ runs' = runs + 1
    /\ cur' = NoItem
    /\ pc' = "next"
    /\ UNCHANGED <<source, dest, faults>>
    /\ UNCHANGED <<call, workers>>

\* process_batch called with the default delay.
StartRun == StartRunWith({DEFAULT_SLEEP})

\* process_batch called with --sleep 0 or with the default delay.
StartRunAnyDelay == StartRunWith({0, DEFAULT_SLEEP})

\* Line 579, the loop head: the next fetched document, or the summary
\* (lines 631-635) when there is none.
NextItem ==
    /\ pc = "next"
    /\ IF idx < Len(docs)
       THEN /\ idx' = idx + 1
            /\ cur' = [NoItem EXCEPT !.d0 = Len(dest), !.c0 = Counters]
            /\ pc' = "check"
       ELSE /\ pc' = "done"
            /\ UNCHANGED <<idx, cur>>
    /\ UNCHANGED <<source, dest, cfg, docs, processed_count, duplicate_count,
                   error_count, rewritten, runs, faults, hist>>
    /\ UNCHANGED <<call, workers>>

\* Lines 580-588: the duplicate check of the current document.
CheckDuplicate ==
    /\ pc = "check"
    /\ \E linkRaises \in BOOLEAN, titleRaises \in BOOLEAN :
        LET id == docs[idx]
            link == source[id].link
            title == source[id].title
            r == check_duplicate_article(dest, link, title, linkRaises, titleRaises)
            raised == LookupRaised(dest, link, title, linkRaises, titleRaises)
        IN  /\ MayFail(~raised)
            /\ cur' = [cur EXCEPT
                         !.dupe = r.dupe,
                         !.raised = raised,
                         !.linkHit = link # "" /\ \E k \in DOMAIN dest : dest[k].link = link,
                         !.prior = \E k \in DOMAIN dest : dest[k].src = id]
            /\ pc' = IF r.dupe THEN "dupmark" ELSE "rewrite"
    /\ UNCHANGED <<source, dest, cfg, docs, idx, processed_count, duplicate_count,
                   error_count, rewritten, runs, hist>>
    /\ UNCHANGED <<call, workers>>

\* The duplicate branch without its continue: the item goes on to the
\* transform.
MarkDuplicateFallsThrough ==
    /\ pc = "dupmark"
    /\ duplicate_count' = duplicate_count + 1
    /\ pc' = "rewrite"
    /\ UNCHANGED <<source, dest, cfg, docs, idx, processed_count, error_count,
                   rewritten, runs, faults, cur, hist>>
    /\ UNCHANGED <<call, workers>>

\* The duplicate branch updating the source in dry-run mode too.
MarkDuplicateIgnoresDryRun ==
    /\ pc = "dupmark"
    /\ source' = SetProcessed(source, docs[idx])
    /\ duplicate_count' = duplicate_count + 1
    /\ hist' = [hist EXCEPT !.handled = @ \cup {docs[idx]}]
    /\ pc' = "next"
    /\ UNCHANGED <<dest, cfg, docs, idx, processed_count, error_count, rewritten,
                   runs, faults, cur>>
    /\ UNCHANGED <<call, workers>>

\* Lines 588-598: a duplicate is marked processed (unless dry-run; a failing
\* update is caught and printed), counted as duplicate, and the loop
\* continues with the next document.
MarkDuplicate ==
    /\ pc = "dupmark"
    /\ \E updateOk \in BOOLEAN :
        IF cfg.dry_run
        THEN UNCHANGED <<source, cur, faults>>
        ELSE /\ MayFail(updateOk)
             /\ IF updateOk
                THEN /\ source' = SetProcessed(source, docs[idx])
                     /\ UNCHANGED cur
                ELSE /\ cur' = [cur EXCEPT !.fault = "dupupdate"]
                     /\ UNCHANGED source
    /\ duplicate_count' = duplicate_count + 1
    /\ hist' = [hist EXCEPT !.handled = @ \cup {docs[idx]}]
    /\ pc' = "next"
    /\ UNCHANGED <<dest, cfg, docs, idx, processed_count, error_count, rewritten, runs>>
    /\ UNCHANGED <<call, workers>>

\* An exception that leaves process_batch instead of being caught.
ItemErrorPropagates(f) ==
    /\ cur' = [cur EXCEPT !.fault = f, !.rewrote = TRUE]
    /\ pc' = "crashed"
    /\ UNCHANGED <<error_count, hist, processed_count>>

\* A handler that catches the exception without counting it.
ItemErrorUncounted(f) ==
    /\ cur' = [cur EXCEPT !.fault = f, !.rewrote = TRUE]
    /\ hist' = [hist EXCEPT !.handled = @ \cup {docs[idx]}]
    /\ pc' = "pace"
    /\ UNCHANGED <<error_count, processed_count>>

\* processed_count incremented in a finally clause: an item that raised is
\* counted as processed too.
ItemErrorCountsProcessed(f) ==
    /\ error_count' = error_count + 1
    /\ processed_count' = processed_count + 1
    /\ cur' = [cur EXCEPT !.fault = f, !.rewrote = TRUE]
    /\ hist' = [hist EXCEPT !.errIds = @ \cup {docs[idx]},
                            !.handled = @ \cup {docs[idx]}]
    /\ pc' = "pace"

\* Lines 622-624: the except clause of the item's try block.
ItemError(f) ==
    /\ error_count' = error_count + 1
    /\ cur' = [cur EXCEPT !.fault = f, !.rewrote = TRUE]
    /\ hist' = [hist EXCEPT !.errIds = @ \cup {docs[idx]},
                            !.handled = @ \cup {docs[idx]}]
    /\ pc' = "pace"
    /\ UNCHANGED processed_count

\* Line 620: the end of the try block.
ItemProcessed ==
    /\ processed_count' = processed_count + 1
    /\ pc' = "pace"
    /\ UNCHANGED error_count

\* Lines 600-604: the Rewrite Transform of a non-duplicate; in dry-run mode
\* the item is counted as processed without any write.
Rewrite ==
    /\ pc = "rewrite"
    /\ \E ok \in BOOLEAN, aiTitle \in AITitles :
        /\ MayFail(ok)
        /\ IF ok
           THEN /\ rewritten' = rewrite_article(source[docs[idx]], aiTitle)
                /\ cur' = [cur EXCEPT !.rewrote = TRUE]
                /\ IF cfg.dry_run
                   THEN /\ ItemProcessed
                        /\ hist' = [hist EXCEPT !.transformed = @ \cup {docs[idx]},
                                                !.handled = @ \cup {docs[idx]}]
                   ELSE /\ pc' = "save"
                        /\ hist' = [hist EXCEPT !.transformed = @ \cup {docs[idx]}]
                        /\ UNCHANGED <<processed_count, error_count>>
           ELSE /\ ItemError("transform")
                /\ UNCHANGED rewritten
    /\ UNCHANGED <<source, dest, cfg, docs, idx, duplicate_count, runs>>
    /\ UNCHANGED <<call, workers>>

\* The source update issued without the destination insert before it.
SaveRewrittenDeferred ==
    /\ pc = "save"
    /\ pc' = "mark"
    /\ UNCHANGED <<source, dest, cfg, docs, idx, processed_count, duplicate_count,
                   error_count, rewritten, runs, faults, cur, hist>>
    /\ UNCHANGED <<call, workers>>

\* Lines 606-609: dest_ref.set(rewritten).  src and afterRaise are history:
\* the source document the record was made from, and whether the duplicate
\* check before it raised.
SaveRewritten ==
    /\ pc = "save"
    /\ \E ok \in BOOLEAN :
        /\ MayFail(ok)
        /\ IF ok
           THEN /\ dest' = Append(dest, [link |-> rewritten.link,
                                         title |-> rewritten.title,
                                         processed |-> rewritten.processed,
                                         src |-> docs[idx],
                                         afterRaise |-> cur.raised])
                /\ pc' = "mark"
                /\ UNCHANGED <<processed_count, error_count, cur, hist>>
           ELSE /\ ItemError("set")
                /\ UNCHANGED dest
    /\ UNCHANGED <<source, cfg, docs, idx, duplicate_count, rewritten, runs>>
    /\ UNCHANGED <<call, workers>>

\* Lines 611-616: the source document is marked processed.
MarkProcessed ==
    /\ pc = "mark"
    /\ \E ok \in BOOLEAN :
        /\ MayFail(ok)
        /\ IF ok
           THEN /\ source' = SetProcessed(source, docs[idx])
                /\ IF cfg.write_static
                   THEN /\ pc' = "static"
                        /\ UNCHANGED <<processed_count, error_count, hist>>
                   ELSE /\ ItemProcessed
                        /\ hist' = [hist EXCEPT !.handled = @ \cup {docs[idx]}]
                /\ UNCHANGED cur
           ELSE /\ ItemError("update")
                /\ UNCHANGED source
    /\ UNCHANGED <<dest, cfg, docs, idx, duplicate_count, rewritten, runs>>
    /\ UNCHANGED <<call, workers>>

\* Lines 616-620: the optional static export, inside the same try block.
WriteStatic ==
    /\ pc = "static"
    /\ \E ok \in BOOLEAN :
        /\ MayFail(ok)
        /\ IF ok
           THEN /\ ItemProcessed
                /\ hist' = [hist EXCEPT !.handled = @ \cup {docs[idx]}]
                /\ UNCHANGED cur
           ELSE ItemError("static")
    /\ UNCHANGED <<source, dest, cfg, docs, idx, duplicate_count, rewritten, runs>>
    /\ UNCHANGED <<call, workers>>

\* Pacing that sleeps after the last document too.
PaceAfterLast ==
    /\ pc = "pace"
    /\ hist' = IF cfg.sleep_s > 0
               THEN [hist EXCEPT !.pauses = Append(@, idx)] ELSE hist
    /\ pc' = "next"
    /\ UNCHANGED <<source, dest, cfg, docs, idx, processed_count, duplicate_count,
                   error_count, rewritten, runs, faults, cur>>
    /\ UNCHANGED <<call, workers>>

\* Lines 626-629: pacing between items.  The sleep is recorded in the
\* history of the run and changes nothing else.
Pace ==
    /\ pc = "pace"
    /\ hist' = IF idx < Len(docs) /\ cfg.sleep_s > 0
               THEN [hist EXCEPT !.pauses = Append(@, idx)] ELSE hist
    /\ pc' = "next"
    /\ UNCHANGED <<source, dest, cfg, docs, idx, processed_count, duplicate_count,
                   error_count, rewritten, runs, faults, cur>>
    /\ UNCHANGED <<call, workers>>

\* The run is interrupted from outside: every write made so far stands, and
\* what the process held in memory is gone.
Interrupt ==
    /\ pc \in Running
    /\ faults < MaxFaults
    /\ faults' = faults + 1
    /\ pc' = "crashed"
    /\ cfg' = NoConfig
    /\ docs' = << >>
    /\ idx' = 0
    /\ processed_count' = 0
    /\ duplicate_count' = 0
    /\ error_count' = 0
    /\ rewritten' = NoPayload
    /\ cur' = NoItem
    /\ hist' = NoRun
    /\ UNCHANGED <<source, dest, runs>>
    /\ UNCHANGED <<call, workers>>

\* The steps of a run that has started.
RunStep ==
    \/ NextItem
    \/ CheckDuplicate
    \/ MarkDuplicate
    \/ Rewrite
    \/ SaveRewritten
    \/ MarkProcessed
    \/ WriteStatic
    \/ Pace

Next ==
    \/ StartRun
    \/ NextItem
    \/ CheckDuplicate
    \/ MarkDuplicate
    \/ Rewrite
    \/ SaveRewritten
    \/ MarkProcessed
    \/ WriteStatic
    \/ Pace

\* Sequential complete runs.
Spec == Init /\ [][Next]_vars

NextCrash ==
    \/ StartRun
    \/ NextItem
    \/ CheckDuplicate
    \/ MarkDuplicate
    \/ Rewrite
    \/ SaveRewritten
    \/ MarkProcessed
    \/ WriteStatic
    \/ Pace
    \/ Interrupt

\* Sequential runs, each of which may be interrupted at any point.
SpecCrash == Init /\ [][NextCrash]_vars

\* The source items tried when the delay varies: one with a link and one
\* without.
PaceItems == {it \in SrcItems : it.title = <<"A">>}

InitPace == Init /\ source \in [Docs -> PaceItems]

NextPace ==
    \/ StartRunAnyDelay
    \/ NextItem
    \/ CheckDuplicate
    \/ MarkDuplicate
    \/ Rewrite
    \/ SaveRewritten
    \/ MarkProcessed
    \/ WriteStatic
    \/ Pace

\* Sequential complete runs, with and without a delay between items.
SpecPace == InitPace /\ [][NextPace]_vars

\* ---------------------------------------------------------- repeated runs
\* process_batch called again and again without --dry-run and with a limit
\* of at least 1, for as long as one likes: the invocations are counted up
\* to MaxRuns and not beyond.
StartRunAgain ==
    /\ pc \in {"idle", "done"}
    /\ \E limit \in 1..MaxLimit, static \in BOOLEAN, queryOk \in BOOLEAN :
        /\ cfg' = [dry_run |-> FALSE, write_static |-> static, sleep_s |-> DEFAULT_SLEEP]
        /\ hist' = [NoRun EXCEPT !.src0 = source, !.dest0 = dest,
                                  !.quota = Min(limit, Cardinality(Unprocessed(source)))]
        /\ docs' = fetch(source, limit, queryOk)
    /\ idx' = 0
    /\ processed_count' = 0
    /\ duplicate_count' = 0
    /\ error_count' = 0
    /\ rewritten' = NoPayload
    /\ runs' = IF runs < MaxRuns THEN runs + 1 ELSE runs
    /\ cur' = NoItem
    /\ pc' = "next"
    /\ UNCHANGED <<source, dest, faults>>
    /\ UNCHANGED <<call, workers>>

\* A step of a run in which neither the transform nor a store write raises.
\* A query of the Duplicate Checker and the static export may raise.
RunStepWritesSucceed ==
    /\ RunStep
    /\ faults' = faults \/ pc \in {"check", "static"}

NextAgain ==
    \/ StartRunAgain
    \/ RunStepWritesSucceed

\* Complete runs one after the other, each started at some time after the
\* one before it has ended, and each going on to its end.
SpecAgain == Init /\ [][NextAgain]_vars /\ WF_vars(NextAgain)

\* ------------------------------------------------------- concurrent runs
\* Two invocations of process_batch at the same time on the same source and
\* destination collections, without dry-run, static export or failing
\* calls.  Each has its own position, fetched documents and counters; the
\* store operations of the two interleave.
Workers == {1, 2}

sequential == <<pc, cfg, docs, idx, processed_count, duplicate_count, error_count,
                rewritten, runs, faults, cur, hist>>

\* seen: the number of destination records when the duplicate check of the
\* current document ran (history).
NoWorker == [pc |-> "idle", docs |-> << >>, idx |-> 0, rewritten |-> NoPayload,
             processed_count |-> 0, duplicate_count |-> 0, seen |-> 0]

InitRace ==
    /\ source \in [Docs -> PaceItems]
    /\ dest = << >>
    /\ pc = "idle"
    /\ cfg = NoConfig
    /\ docs = << >>
    /\ idx = 0
    /\ processed_count = 0
    /\ duplicate_count = 0
    /\ error_count = 0
    /\ rewritten = NoPayload
    /\ runs = 0
    /\ faults = 0
    /\ cur = NoItem
    /\ hist = NoRun
    /\ call = NoCall
    /\ workers = [w \in Workers |-> NoWorker]

\* Lines 559-577 in worker w.
W_Start(w) ==
    /\ workers[w].pc = "idle"
    /\ \E limit \in 1..MaxLimit :
        workers' = [workers EXCEPT ![w] = [NoWorker EXCEPT
                        !.pc = "next", !.docs = FilteredQuery(source, limit, 1)]]
    /\ UNCHANGED <<source, dest, sequential, call>>

\* Line 579 in worker w.
W_NextItem(w) ==
    /\ workers[w].pc = "next"
    /\ workers' = [workers EXCEPT ![w] =
                     IF @.idx < Len(@.docs)
                     THEN [@ EXCEPT !.idx = @ + 1, !.pc = "check"]
                     ELSE [@ EXCEPT !.pc = "done"]]
    /\ UNCHANGED <<source, dest, sequential, call>>

\* Lines 580-588 in worker w.
W_CheckDuplicate(w) ==
    /\ workers[w].pc = "check"
    /\ LET me == workers[w]
           id == me.docs[me.idx]
           r == check_duplicate_article(dest, source[id].link, source[id].title,
                                        FALSE, FALSE)
       IN  workers' = [workers EXCEPT ![w].seen = Len(dest),
                                      ![w].pc = IF r.dupe THEN "dupmark" ELSE "rewrite"]
    /\ UNCHANGED <<source, dest, sequential, call>>

\* Lines 588-598 in worker w.
W_MarkDuplicate(w) ==
    /\ workers[w].pc = "dupmark"
    /\ source' = SetProcessed(source, workers[w].docs[workers[w].idx])
    /\ workers' = [workers EXCEPT ![w].duplicate_count = @ + 1, ![w].pc = "next"]
    /\ UNCHANGED <<dest, sequential, call>>

\* Line 601 in worker w.
W_Rewrite(w) ==
    /\ workers[w].pc = "rewrite"
    /\ \E aiTitle \in AITitles :
        workers' = [workers EXCEPT
                      ![w].rewritten =
                          rewrite_article(source[workers[w].docs[workers[w].idx]], aiTitle),
                      ![w].pc = "save"]
    /\ UNCHANGED <<source, dest, sequential, call>>

\* An insertion that looks the link and the title up again and writes
\* nothing when a record matches.
W_SaveIfAbsent(w) ==
    /\ workers[w].pc = "save"
    /\ LET me == workers[w]
           id == me.docs[me.idx]
           r == check_duplicate_article(dest, source[id].link, source[id].title,
                                        FALSE, FALSE)
       IN  dest' = IF r.dupe THEN dest
                   ELSE Append(dest, [link |-> me.rewritten.link,
                                      title |-> me.rewritten.title,
                                      processed |-> me.rewritten.processed,
                                      src |-> id, by |-> w, seen |-> me.seen])
    /\ workers' = [workers EXCEPT ![w].pc = "mark"]
    /\ UNCHANGED <<source, sequential, call>>

\* Lines 606-609 in worker w: dest_ref.set(rewritten).  src, by and seen are
\* history.
W_SaveRewritten(w) ==
    /\ workers[w].pc = "save"
    /\ LET me == workers[w]
       IN  dest' = Append(dest, [link |-> me.rewritten.link,
                                 title |-> me.rewritten.title,
                                 processed |-> me.rewritten.processed,
                                 src |-> me.docs[me.idx], by |-> w, seen |-> me.seen])
    /\ workers' = [workers EXCEPT ![w].pc = "mark"]
    /\ UNCHANGED <<source, sequential, call>>

\* Lines 611-629 in worker w.
W_MarkProcessed(w) ==
    /\ workers[w].pc = "mark"
    /\ source' = SetProcessed(source, workers[w].docs[workers[w].idx])
    /\ workers' = [workers EXCEPT ![w].processed_count = @ + 1, ![w].pc = "next"]
    /\ UNCHANGED <<dest, sequential, call>>

NextRace ==
    \/ \E w \in Workers : W_Start(w)
    \/ \E w \in Workers : W_NextItem(w)
    \/ \E w \in Workers : W_CheckDuplicate(w)
    \/ \E w \in Workers : W_MarkDuplicate(w)
    \/ \E w \in Workers : W_Rewrite(w)
    \/ \E w \in Workers : W_SaveRewritten(w)
    \/ \E w \in Workers : W_MarkProcessed(w)

SpecRace == InitRace /\ [][NextRace]_vars

\* ------------------------------------------------- functions called alone
\* The pipeline is idle while one function of the module is called on one
\* input: call holds the input, and the result once the call has returned.
PipelineIdle ==
    /\ source = [d \in Docs |-> [link |-> "", title |-> << >>, processed |-> FALSE]]
    /\ dest = << >>
    /\ pc = "idle"
    /\ cfg = NoConfig
    /\ docs = << >>
    /\ idx = 0
    /\ processed_count = 0
    /\ duplicate_count = 0
    /\ error_count = 0
    /\ rewritten = NoPayload
    /\ runs = 0
    /\ faults = 0
    /\ cur = NoItem
    /\ hist = NoRun
    /\ workers = << >>

pipeline == <<source, dest, pc, cfg, docs, idx, processed_count, duplicate_count,
              error_count, rewritten, runs, faults, cur, hist, workers>>

\* The call returns out.
Return(out) == call' = [call EXCEPT !.out = out, !.done = TRUE]

Pending(fn) == call.fn = fn /\ ~call.done

Returned(fn) == call.fn = fn /\ call.done

\* Destination records as the Duplicate Checker sees them.
DupLinks == {"", "https://x/1", "https://x/2"}

DupTitles == {<< >>, <<"A">>, <<"B">>}

DupRecords == [link : DupLinks, title : DupTitles]

DupDests == UNION {[1..n -> DupRecords] : n \in 0..MaxDest}

DupCalls ==
    {[fn |-> "check_duplicate_article",
      arg |-> [d |-> d, link |-> l, title |-> t, linkRaises |-> lr, titleRaises |-> tr],
      out |-> NotDuplicate, done |-> FALSE] :
        d \in DupDests, l \in DupLinks, t \in DupTitles,
        lr \in BOOLEAN, tr \in BOOLEAN}

\* The texts given to slugify: letters in both cases, a digit, an accented
\* letter, an apostrophe, a space and a hyphen.
SlugChars == {"A", "b", "1", "é", "'", " ", "-"}

SlugTexts == UNION {[1..n -> SlugChars] : n \in 0..MaxSlugText}

\* max_len: small values, the length of the fallback, the default.
SlugLens == (1..MaxSlugLen) \cup {Len(FALLBACK_SLUG), SLUG_MAX_LEN}

SlugCalls ==
    {[fn |-> "slugify", arg |-> [s |-> t, max_len |-> n], out |-> << >>, done |-> FALSE] :
        t \in SlugTexts, n \in SlugLens}

Call_slugify ==
    /\ Pending("slugify")
    /\ Return(slugify(call.arg.s, call.arg.max_len))
    /\ UNCHANGED pipeline

\* c repeated n times.
Rep(c, n) == [i \in 1..n |-> c]

\* The texts given to generate_summary: every short text over a letter, a
\* space and the two tag delimiters, with small limits; and, with the limit
\* 140 of rewrite_article, texts of 140 and more characters: one word, a
\* space at or before the limit, and a text that tags make longer than 140.
SummaryChars == {"a", " ", "<", ">"}

SummaryShortTexts == UNION {[1..n -> SummaryChars] : n \in 0..MaxSummaryText}

SummaryLongTexts ==
    {Rep("a", SUMMARY_LIMIT),
     Rep("a", SUMMARY_LIMIT + 1),
     Rep("a", SUMMARY_LIMIT - 1) \o <<" ", "a", "a">>,
     Rep("a", SUMMARY_LIMIT) \o <<" ", "a", "a">>,
     Rep("a", SUMMARY_LIMIT - 2) \o <<" ", " ", "a", "a">>,
     Rep("a", 2) \o <<" ">> \o Rep("a", SUMMARY_LIMIT),
     <<"<", "p", ">">> \o Rep("a", SUMMARY_LIMIT) \o <<"<", "/", "p", ">">>,
     <<"<", "p", ">">> \o Rep("a", SUMMARY_LIMIT + 1) \o <<"<", "/", "p", ">">>}

SummaryCalls ==
    {[fn |-> "generate_summary", arg |-> [full_text |-> t, char_limit |-> n],
      out |-> << >>, done |-> FALSE] :
        t \in SummaryShortTexts, n \in 1..MaxSummaryLimit}
    \cup
    {[fn |-> "generate_summary", arg |-> [full_text |-> t, char_limit |-> SUMMARY_LIMIT],
      out |-> << >>, done |-> FALSE] :
        t \in SummaryLongTexts \cup SummaryShortTexts}

Call_generate_summary ==
    /\ Pending("generate_summary")
    /\ Return(generate_summary(call.arg.full_text, call.arg.char_limit))
    /\ UNCHANGED pipeline

\* The replies to the tags prompt: every text of up to MaxTagReply
\* characters over a letter, a comma and a space.
TagChars == {"t", ",", " "}

TagReplies ==
    {Raises, Absent}
        \cup {Reply(t) : t \in UNION {[1..n -> TagChars] : n \in 0..MaxTagReply}}

TagCalls ==
    {[fn |-> "get_tags", arg |-> [session |-> TRUE, resp |-> r],
      out |-> << >>, done |-> FALSE] : r \in TagReplies}
    \cup {[fn |-> "get_tags", arg |-> [session |-> FALSE, resp |-> Absent],
            out |-> << >>, done |-> FALSE]}

Call_get_tags ==
    /\ Pending("get_tags")
    /\ Return(get_tags(call.arg.session, call.arg.resp))
    /\ UNCHANGED pipeline

\* The replies to the category prompt: each category of the prompt, alone
\* and inside a sentence; a word that is not a category; and every text of
\* up to MaxCategoryReply characters over a letter, a space and a newline.
CategoryChars == {"x", " ", "\n"}

CategoryReplies ==
    {Raises, Absent}
        \cup {Reply(c) : c \in CATEGORIES}
        \cup {Reply(<<" ">> \o c \o <<"\n", "x">>) : c \in CATEGORIES}
        \cup {Reply(<<"x", " ">> \o c) : c \in CATEGORIES}
        \cup {Reply(<<"M", "i", "s", "d", "a", "a", "d">>)}
        \cup {Reply(t) : t \in UNION {[1..n -> CategoryChars] : n \in 0..MaxCategoryReply}}

CategoryCalls ==
    {[fn |-> "get_category", arg |-> [session |-> TRUE, resp |-> r],
      out |-> << >>, done |-> FALSE] : r \in CategoryReplies}
    \cup {[fn |-> "get_category", arg |-> [session |-> FALSE, resp |-> Absent],
            out |-> << >>, done |-> FALSE]}

Call_get_category ==
    /\ Pending("get_category")
    /\ Return(get_category(call.arg.session, call.arg.resp))
    /\ UNCHANGED pipeline

\* The source bodies tried: every text of up to MaxBody characters over a
\* letter, a space and a newline (the empty and the whitespace-only bodies
\* among them), two lines of which the second is long, and a body of two
\* chunks.
BodyChars == {"a", " ", "\n"}

Bodies ==
    UNION {[1..n -> BodyChars] : n \in 0..MaxBody}
        \cup {<<"a", "\n">> \o Rep("a", HEADING_MAX) \o <<"\n", "a">>,
               Rep("x", CHUNK_SIZE + 1)}

\* The texts given to the formatter alone: the bodies, and texts that hold
\* markup already.
FormatTexts ==
    Bodies \cup {<<"<", "p", ">", "a">>, <<"a", "<", "h", "3", ">">>, <<"<", "b", ">", "\n", "a">>}

FormatCalls ==
    {[fn |-> "format_full_text_with_html", arg |-> [text |-> t],
      out |-> << >>, done |-> FALSE] : t \in FormatTexts}

Call_format_full_text_with_html ==
    /\ Pending("format_full_text_with_html")
    /\ Return(format_full_text_with_html(call.arg.text))
    /\ UNCHANGED pipeline

\* The source items given to the transform: each body with a title that
\* strip() keeps or changes and with no title; and, with one body, a title
\* of more than 160 characters and an item without link.
Articles ==
    [link : {"https://x/1"}, title : {<<"A">>, <<" ", "A">>, << >>}, body : Bodies]
        \cup [link : {"", "https://x/1"},
              title : {<<"A">>, Rep("A", TITLE_CAP + 1)},
              body : {<<"a">>}]

\* What the backend does at a call of the transform: for a chunk, for the
\* title, for the category and for the tags.
ChunkReplies == {Raises, Absent, Reply(<<"b">>)}

TitleReplies == {Raises, Absent, Reply(<<"B">>)}

CategoryRepliesInTransform == {Raises, Reply(<<"S", "p", "o", "r", "t">>), Reply(<<" ">>)}

TagRepliesInTransform ==
    {Raises, Absent, Reply(<<"t", ",", "u", ",", "v">>)}

Backends(body) ==
    [chunks : [1..NumChunks(body) -> ChunkReplies],
     title : TitleReplies,
     category : CategoryRepliesInTransform,
     tags : TagRepliesInTransform]

\* Without a session the backend is not called.
NoBackend(body) ==
    [chunks |-> [k \in 1..NumChunks(body) |-> Absent],
     title |-> Absent, category |-> Absent, tags |-> Absent]

RewriteCalls ==
    {[fn |-> "rewrite_article", arg |-> [article |-> a, session |-> FALSE, be |-> NoBackend(a.body)],
      out |-> NoPayload, done |-> FALSE] : a \in Articles}
    \cup UNION {
        {[fn |-> "rewrite_article", arg |-> [article |-> a, session |-> TRUE, be |-> be],
          out |-> NoPayload, done |-> FALSE] : be \in Backends(a.body)} : a \in Articles}

Call_rewrite_article ==
    /\ Pending("rewrite_article")
    /\ Return(rewrite_article_payload(call.arg.article, call.arg.session, call.arg.be))
    /\ UNCHANGED pipeline

\* The source collections given to the fetch alone: each document has
\* processed False, processed True, or no processed field.
FetchItems == {[processed |-> FALSE], [processed |-> TRUE], [link |-> "https://x/1"]}

FetchSources == [Docs -> FetchItems]

FetchCalls ==
    {[fn |-> "fetch", arg |-> [src |-> src, limit |-> limit, queryOk |-> q],
      out |-> [docs |-> << >>, reads |-> 0], done |-> FALSE] :
        src \in FetchSources, limit \in 0..MaxLimit, q \in BOOLEAN}

\* reads: how many documents the loop of the full scan went through (0 for
\* the filtered query, which the store evaluates).
Call_fetch ==
    /\ Pending("fetch")
    /\ Return([docs |-> fetch(call.arg.src, call.arg.limit, call.arg.queryOk),
               reads |-> IF call.arg.queryOk THEN 0
                         ELSE FullScanReads(call.arg.src, call.arg.limit, 1, << >>)])
    /\ UNCHANGED pipeline

Call_check_duplicate_article ==
    /\ Pending("check_duplicate_article")
    /\ Return(check_duplicate_article(call.arg.d, call.arg.link, call.arg.title,
                                      call.arg.linkRaises, call.arg.titleRaises))
    /\ UNCHANGED pipeline

InitFn ==
    /\ PipelineIdle
    /\ \/ call \in DupCalls
       \/ call \in SlugCalls
       \/ call \in SummaryCalls
       \/ call \in TagCalls
       \/ call \in CategoryCalls
       \/ call \in FormatCalls
       \/ call \in RewriteCalls
       \/ call \in FetchCalls

NextFn ==
    \/ Call_check_duplicate_article
    \/ Call_slugify
    \/ Call_generate_summary
    \/ Call_get_tags
    \/ Call_get_category
    \/ Call_format_full_text_with_html
    \/ Call_rewrite_article
    \/ Call_fetch

\* Each function of the module called alone, on each of the inputs tried.
SpecFn == InitFn /\ [][NextFn]_vars

\* ----------------------------------------------------------------- claims
Range(f) == {f[i] : i \in DOMAIN f}

\* The handling of document docs[idx] is complete, and cur describes it.
ItemDone == pc \in {"pace", "next", "done"} /\ idx >= 1

\* The destination records made from source document id.
RecordsOf(id) == {k \in DOMAIN dest : dest[k].src = id}

\* C1: in a non-dry-run batch, an item that the Duplicate Checker reports as
\* not duplicate and whose transform, destination write and source update
\* all succeed adds exactly one destination record, carrying the item's
\* link, and has its processed flag set.
C1_OneRecordAndProcessed ==
    (ItemDone /\ ~cfg.dry_run /\ ~cur.dupe /\ cur.fault \in {"none", "static"})
        => /\ Len(dest) = cur.d0 + 1
           /\ dest[Len(dest)].link = source[docs[idx]].link
           /\ dest[Len(dest)].src = docs[idx]
           /\ source[docs[idx]].processed

C1_Witness ==
    /\ ItemDone /\ ~cfg.dry_run /\ ~cur.dupe /\ cur.fault = "none"
    /\ Len(dest) = cur.d0 + 1
    /\ processed_count = cur.c0[1] + 1

\* C2 as claimed: in a non-dry-run batch, an item whose non-empty link is
\* the link of an existing destination record creates no record, is marked
\* processed and is counted as duplicate and not as processed.
C2_Original ==
    (ItemDone /\ ~cfg.dry_run /\ cur.linkHit)
        => /\ Len(dest) = cur.d0
           /\ source[docs[idx]].processed
           /\ Counters = <<cur.c0[1], cur.c0[2] + 1, cur.c0[3]>>

\* C2 as amended: the same, provided the link query of the Duplicate
\* Checker does not raise and the source update succeeds.
C2_LinkDuplicate ==
    (ItemDone /\ ~cfg.dry_run /\ cur.linkHit /\ ~cur.raised /\ cur.fault = "none")
        => /\ Len(dest) = cur.d0
           /\ source[docs[idx]].processed
           /\ Counters = <<cur.c0[1], cur.c0[2] + 1, cur.c0[3]>>

C2_Witness ==
    /\ ItemDone /\ ~cfg.dry_run /\ cur.linkHit /\ ~cur.raised /\ cur.fault = "none"
    /\ duplicate_count = cur.c0[2] + 1
    /\ source[docs[idx]].processed

\* C3: during and after a dry-run batch the destination collection and
\* every source processed flag are as they were at the fetch, and at the end
\* the processed counter is the number of fetched items whose transform ran
\* and succeeded (duplicates never reach it).
C3_DryRunFrame ==
    (cfg.dry_run /\ pc \in Running \cup {"done"})
        => /\ dest = hist.dest0
           /\ \A d \in Docs : source[d].processed = hist.src0[d].processed
           /\ pc = "done" => processed_count = Cardinality(hist.transformed)

C3_Witness ==
    /\ cfg.dry_run /\ pc = "done"
    /\ Len(docs) = 2
    /\ processed_count = 1
    /\ dest # << >>

\* C4 as claimed: whatever runs are interrupted, no source item ever has
\* more than one destination record made from it.
C4_Original == \A id \in Docs : Cardinality(RecordsOf(id)) <= 1

\* The Duplicate Checker can find a record made from id again: by the link,
\* or by a title that the transform kept as it is in the source.
Recoverable(id) ==
    \/ source[id].link # ""
    \/ /\ source[id].title # << >>
       /\ \A k \in RecordsOf(id) : dest[k].title = source[id].title

\* C4 as amended: at most one destination record is made from a source item
\* that has a non-empty link, or a non-empty title that its record keeps
\* unchanged, as long as no record of the item was inserted after a failed
\* duplicate lookup.
C4_AtMostOneRecord ==
    \A id \in Docs :
        (Recoverable(id) /\ \A k \in RecordsOf(id) : ~dest[k].afterRaise)
            => Cardinality(RecordsOf(id)) <= 1

\* A record was persisted while its source stayed unmarked, and the next run
\* found it and marked the source.
C4_Witness ==
    /\ ItemDone /\ cur.prior /\ cur.dupe /\ runs = 2
    /\ source[docs[idx]].processed
    /\ Cardinality(RecordsOf(docs[idx])) = 1

\* C5: after a failure of the transform or of a store write the run is not
\* aborted: it can always take its next step, and when it ends every fetched
\* item has been handled and counted.
C5_FailureNeverAborts ==
    /\ pc # "crashed"
    /\ (hist.errIds # {} \/ cur.fault # "none")
        => /\ pc \in Running => ENABLED RunStep
           /\ pc = "done" =>
                /\ hist.handled = Range(docs)
                /\ processed_count + duplicate_count + error_count = Len(docs)

C5_Witness ==
    /\ pc = "done"
    /\ Len(docs) = 2
    /\ docs[1] \in hist.errIds
    /\ docs[2] \in hist.handled

\* C6 as claimed: at the end of a run every item counted as error is still
\* unprocessed in the source collection.
C6_ErrorItemsStayUnprocessed ==
    pc = "done" => \A id \in hist.errIds : ~source[id].processed

\* C7 as claimed: in a non-dry-run batch an item whose destination write or
\* source update raises (the update of a duplicate included) is counted once
\* as error and not as processed or duplicate.
C7_Original ==
    (ItemDone /\ ~cfg.dry_run /\ cur.fault \in {"set", "update", "dupupdate"})
        => Counters = <<cur.c0[1], cur.c0[2], cur.c0[3] + 1>>

\* C7 as amended: a failing destination write or source update of a
\* non-duplicate item is counted once as error and not otherwise; a failing
\* source update of a duplicate item is counted once as duplicate and not as
\* error.
C7_PersistenceFailureCounted ==
    (ItemDone /\ ~cfg.dry_run)
        => /\ cur.fault \in {"set", "update"}
                => Counters = <<cur.c0[1], cur.c0[2], cur.c0[3] + 1>>
           /\ cur.fault = "dupupdate"
                => Counters = <<cur.c0[1], cur.c0[2] + 1, cur.c0[3]>>

C7_Witness ==
    /\ ItemDone /\ ~cfg.dry_run /\ cur.fault = "update"
    /\ Len(dest) = cur.d0 + 1
    /\ error_count = cur.c0[3] + 1

\* C8 as claimed: at the end of a run the three counters add up to the
\* number of fetched items, which is min(limit, unprocessed source items at
\* the fetch), and every fetched item was handled once.
C8_CountersCoverFetched ==
    pc = "done"
        => /\ processed_count + duplicate_count + error_count = Len(docs)
           /\ Len(docs) = hist.quota
           /\ idx = Len(docs)
           /\ hist.handled = Range(docs)

\* C9: an item reported as duplicate never enters the transform and has no
\* destination record written; it is counted neither as processed nor as
\* error.
C9_DuplicateSkipsTransform ==
    (idx >= 1 /\ cur.dupe)
        => /\ ~cur.rewrote
           /\ pc \notin {"rewrite", "save", "mark", "static"}
           /\ Len(dest) = cur.d0
           /\ processed_count = cur.c0[1]
           /\ error_count = cur.c0[3]

C9_Witness ==
    /\ ItemDone /\ cur.dupe /\ ~cfg.dry_run
    /\ duplicate_count = cur.c0[2] + 1
    /\ source[docs[idx]].processed

\* C10: when a query of the Duplicate Checker raises, the item is reported
\* as not duplicate and goes through the transform and the writes like any
\* non-duplicate: it is never counted as duplicate, and it is counted as
\* error only when the transform or a write fails.
C10_LookupFailureNotDuplicate ==
    (idx >= 1 /\ cur.raised)
        => /\ ~cur.dupe
           /\ pc # "dupmark"
           /\ ItemDone =>
                /\ cur.rewrote
                /\ duplicate_count = cur.c0[2]
                /\ cur.fault \in {"none", "transform", "set", "update", "static"}
                /\ cur.fault = "none" =>
                     /\ Counters = <<cur.c0[1] + 1, cur.c0[2], cur.c0[3]>>
                     /\ ~cfg.dry_run =>
                          /\ Len(dest) = cur.d0 + 1
                          /\ source[docs[idx]].processed

\* A duplicate admitted because the lookup failed.
C10_Witness ==
    /\ ItemDone /\ cur.raised /\ cur.linkHit /\ ~cfg.dry_run
    /\ Len(dest) = cur.d0 + 1
    /\ processed_count = cur.c0[1] + 1

\* C11: when no query raises, the Duplicate Checker reports (duplicate,
\* "link") exactly when some destination record has the given non-empty
\* link; otherwise (duplicate, "title") exactly when a non-empty title was
\* given and some record has that exact title; otherwise not duplicate.
\* When one record matches the link and a different one the title, the
\* reason is "link".
C11_LinkThenTitle ==
    (Returned("check_duplicate_article")
        /\ ~call.arg.linkRaises /\ ~call.arg.titleRaises)
        => LET d == call.arg.d
               linkMatch == call.arg.link # "" /\ \E k \in DOMAIN d : d[k].link = call.arg.link
               titleMatch == call.arg.title # << >>
                                /\ \E k \in DOMAIN d : d[k].title = call.arg.title
           IN  /\ call.out = [dupe |-> TRUE, reason |-> "link"] <=> linkMatch
               /\ ~linkMatch => (call.out = [dupe |-> TRUE, reason |-> "title"] <=> titleMatch)
               /\ (~linkMatch /\ ~titleMatch) => call.out = NotDuplicate
               /\ (linkMatch /\ titleMatch) => call.out.reason = "link"

\* One record matches the link only, another one the title only.
C11_Witness ==
    /\ Returned("check_duplicate_article")
    /\ ~call.arg.linkRaises /\ ~call.arg.titleRaises
    /\ call.arg.link # "" /\ call.arg.title # << >>
    /\ \E j, k \in DOMAIN call.arg.d :
        /\ j # k
        /\ call.arg.d[j].link = call.arg.link /\ call.arg.d[j].title # call.arg.title
        /\ call.arg.d[k].title = call.arg.title /\ call.arg.d[k].link # call.arg.link
    /\ call.out = [dupe |-> TRUE, reason |-> "link"]

\* The documents of the current run that were handled as duplicates.
DupIds == hist.handled \ (hist.transformed \cup hist.errIds)

\* The positions of docs whose handling is complete.
DonePositions == IF pc \in {"next", "done"} THEN 1..idx ELSE 1..(idx - 1)

\* C12 as claimed: with a delay > 0, once the run is past a fetched item
\* that is not the last one it has paused exactly once after it, whatever
\* the item ended as, and it never pauses after the last item.
C12_Original ==
    (cfg.sleep_s > 0 /\ pc \in (Running \cup {"done"}) \ {"pace"})
        => LET due == {i \in DonePositions : i < Len(docs)}
           IN  /\ Range(hist.pauses) = due
               /\ Len(hist.pauses) = Cardinality(due)

\* C12 as amended: the same for the items that were not reported as
\* duplicates; after an item reported as duplicate the run does not pause.
C12_PauseAfterNonDuplicate ==
    (cfg.sleep_s > 0 /\ pc \in (Running \cup {"done"}) \ {"pace"})
        => LET due == {i \in DonePositions : i < Len(docs) /\ docs[i] \notin DupIds}
           IN  /\ Range(hist.pauses) = due
               /\ Len(hist.pauses) = Cardinality(due)

\* A run of two items has ended after one pause, made after a first item
\* that ended as error.
C12_Witness ==
    /\ cfg.sleep_s > 0 /\ pc = "done"
    /\ Len(docs) = 2
    /\ docs[1] \in hist.errIds
    /\ hist.pauses = <<1>>

\* A record of dest matches the link or the title of source document id.
Matches(rec, id) ==
    \/ source[id].link # "" /\ rec.link = source[id].link
    \/ source[id].title # << >> /\ rec.title = source[id].title

\* C13: the duplicate check and the insertion are separate steps of a run.
\* A run that has written the record of an item did so although the other
\* run may have written a matching record since its check: the record is in
\* the destination, and all that its check established is that no record
\* matched when the check ran.  So two concurrent runs can both pass the
\* check for the same item and both insert it.
C13_CheckThenInsertNotAtomic ==
    /\ \A w \in Workers :
        workers[w].pc = "mark"
            => \E k \in DOMAIN dest :
                /\ dest[k].by = w
                /\ dest[k].src = workers[w].docs[workers[w].idx]
    /\ \A k \in DOMAIN dest :
        /\ dest[k].seen < k
        /\ \A j \in 1..dest[k].seen : ~Matches(dest[j], dest[k].src)

\* Both runs passed the duplicate check of the same item before either
\* wrote, and the destination holds two records with the same link.
C13_Witness ==
    \E j, k \in DOMAIN dest :
        /\ j < k
        /\ dest[j].link # "" /\ dest[j].link = dest[k].link
        /\ dest[j].src = dest[k].src
        /\ dest[j].by # dest[k].by
        /\ dest[j].seen = 0 /\ dest[k].seen = 0

C15_BackendFailureAbsorbed ==
    (Returned("rewrite_article") /\ call.arg.session)
        => LET be == call.arg.be
               a == call.arg.article
           IN  /\ be.title.kind = "raise"
                    => call.out.title = Take(Strip(a.title), TITLE_CAP)
               /\ (\A k \in DOMAIN be.chunks : be.chunks[k].kind = "raise")
                    => call.out.full_text = format_full_text_with_html(a.body)
               /\ be.category.kind = "raise" => call.out.category = NIEUWS
               /\ be.tags.kind = "raise" => call.out.tags = FALLBACK_TAGS
               /\ call.out.processed
               /\ call.out.slug # << >>
               /\ call.out.category # << >>
               /\ Len(call.out.tags) = 3
               /\ call.out.link = a.link

\* Every backend call of a transform of two chunks raised.
C15_Witness ==
    /\ Returned("rewrite_article") /\ call.arg.session
    /\ Len(call.arg.be.chunks) = 2
    /\ \A k \in DOMAIN call.arg.be.chunks : call.arg.be.chunks[k].kind = "raise"
    /\ call.arg.be.title.kind = "raise"
    /\ call.arg.be.category.kind = "raise"
    /\ call.arg.be.tags.kind = "raise"
    /\ call.arg.article.title = <<"A">>
    /\ call.out.title = <<"A">>
    /\ call.out.category = NIEUWS

\* C16 as claimed: the full_text of every record that the transform returns
\* is a non-empty string, whatever the source body and the chunk outputs;
\* and the formatter never returns an empty string.
C16_FullTextNeverEmpty ==
    /\ Returned("rewrite_article") => call.out.full_text # << >>
    /\ Returned("format_full_text_with_html") => call.out # << >>

\* The comma-separated tokens of a reply, stripped.
StrippedTokens(resp) ==
    LET parts == Split(ContentOf(resp), ",")
    IN  [i \in DOMAIN parts |-> Strip(parts[i])]

NonEmptyTokens(resp) == SelectSeq(StrippedTokens(resp), LAMBDA t : t # << >>)

\* C17 as claimed: get_tags returns exactly 3 labels: the 3 tokens of the
\* reply when the reply is exactly 3 comma-separated non-empty tokens, and
\* the fallback labels for every other reply, for a missing reply and for a
\* failing call.
C17_Original ==
    Returned("get_tags")
        => /\ Len(call.out) = 3
           /\ IF /\ call.arg.session /\ call.arg.resp.kind = "text"
                 /\ Len(StrippedTokens(call.arg.resp)) = 3
                 /\ \A i \in 1..3 : StrippedTokens(call.arg.resp)[i] # << >>
              THEN call.out = StrippedTokens(call.arg.resp)
              ELSE call.out = FALLBACK_TAGS

\* C17 as amended: get_tags returns exactly 3 non-empty labels: the first 3
\* non-empty tokens of the reply when the reply has at least 3 non-empty
\* comma-separated tokens (further tokens and empty tokens are dropped), and
\* the fallback labels otherwise.
C17_FirstThreeNonEmptyTokens ==
    Returned("get_tags")
        => /\ Len(call.out) = 3
           /\ \A i \in 1..3 : call.out[i] # << >>
           /\ IF /\ call.arg.session /\ call.arg.resp.kind = "text"
                 /\ Len(NonEmptyTokens(call.arg.resp)) >= 3
              THEN \A i \in 1..3 : call.out[i] = NonEmptyTokens(call.arg.resp)[i]
              ELSE call.out = FALLBACK_TAGS

\* A reply of four tokens, one of them empty, gave its three non-empty
\* tokens.
C17_Witness ==
    /\ Returned("get_tags")
    /\ call.arg.resp.kind = "text"
    /\ Len(StrippedTokens(call.arg.resp)) = 4
    /\ Len(NonEmptyTokens(call.arg.resp)) = 3
    /\ call.out = NonEmptyTokens(call.arg.resp)

\* C18 as claimed: for every backend reply get_category returns a label of
\* the fixed vocabulary of 10, and "Nieuws" when there is no session, no
\* reply or a failing call.
C18_CategoryInVocabulary ==
    Returned("get_category")
        => /\ call.out \in CATEGORIES
           /\ (~call.arg.session \/ call.arg.resp.kind # "text") => call.out = NIEUWS

\* C19: the result of generate_summary(text, limit) has at most limit + 3
\* characters (143 for the limit 140), and when the text without its tags,
\* stripped, has at most limit characters, the result is that text, with no
\* ellipsis added.
C19_SummaryBounded ==
    Returned("generate_summary")
        => LET plain == Strip(StripTags(call.arg.full_text))
           IN  /\ Len(call.out) <= call.arg.char_limit + 3
               /\ Len(plain) <= call.arg.char_limit
                    => /\ call.out = plain
                       /\ Len(call.out) <= call.arg.char_limit

\* A text of one word of more than 140 characters gives a summary of 143.
C19_Witness ==
    /\ Returned("generate_summary")
    /\ call.arg.char_limit = SUMMARY_LIMIT
    /\ Len(call.arg.full_text) > SUMMARY_LIMIT
    /\ Len(call.out) = SUMMARY_LIMIT + 3
    /\ SubSeq(call.out, SUMMARY_LIMIT + 1, SUMMARY_LIMIT + 3) = ELLIPSIS

\* C20 as claimed: for every text and every max_len >= 1, the result of
\* slugify has at most max_len characters.
C20_Original ==
    Returned("slugify") => Len(call.out) <= call.arg.max_len

\* C20 as amended: the result has at most max_len characters unless it is
\* the fallback "artikel", which is returned whenever nothing is left of
\* the text after the cut; so it has at most max_len characters whenever
\* max_len is at least 7.
C20_SlugWithinMaxLenOrFallback ==
    Returned("slugify")
        => /\ Len(call.out) <= call.arg.max_len \/ call.out = FALLBACK_SLUG
           /\ call.arg.max_len >= Len(FALLBACK_SLUG) => Len(call.out) <= call.arg.max_len
           /\ call.out # << >>
           /\ call.out[Len(call.out)] # "-"

\* The cut acted: a text with more than max_len slug characters gave a slug
\* of exactly max_len characters.
C20_Witness ==
    /\ Returned("slugify")
    /\ call.arg.max_len < Len(call.arg.s)
    /\ Len(call.out) = call.arg.max_len
    /\ call.out # FALLBACK_SLUG


\* One step of a run writes only for the document it is handling: the
\* source changes by the processed flag of docs[idx] alone, in the duplicate
\* branch or after the insert; the destination changes by one appended
\* record made from docs[idx]; and the run moves to the next document only
\* from the loop head.
C21_WritesOfCurrentItem ==
    /\ source' # source
        => /\ pc \in {"dupmark", "mark"} /\ idx' = idx
           /\ source' = SetProcessed(source, docs[idx])
    /\ dest' # dest
        => /\ pc = "save" /\ idx' = idx
           /\ Len(dest') = Len(dest) + 1
           /\ SubSeq(dest', 1, Len(dest)) = dest
           /\ dest'[Len(dest')].src = docs[idx]
    /\ idx' # idx
        => \/ pc = "next" /\ idx' = idx + 1 /\ docs' = docs
           \/ pc \in {"idle", "done"} /\ idx' = 0

\* Where the source update is issued: after the insert for the same
\* document on the non-duplicate path, after a match was found on the
\* duplicate path.
C21_UpdateAfterInsertOrMatch ==
    /\ pc = "mark"
        => /\ Len(dest) = cur.d0 + 1
           /\ dest[Len(dest)].src = docs[idx]
           /\ dest[Len(dest)].link = source[docs[idx]].link
    /\ pc = "dupmark" => \E k \in DOMAIN dest : Matches(dest[k], docs[idx])
    /\ \A id \in Docs :
        source[id].processed
            => \E k \in DOMAIN dest :
                \/ dest[k].src = id /\ dest[k].link = source[id].link
                \/ Matches(dest[k], id)

\* C21: every source item whose processed flag the orchestrator has set has
\* a destination record with its link or its title: the record inserted for
\* that same item before the update was issued, or the record that the
\* Duplicate Checker matched to it; and every store write made for an item
\* precedes any operation on the next item.
C21_ProcessedHasRecord ==
    []C21_UpdateAfterInsertOrMatch /\ [][C21_WritesOfCurrentItem]_vars

\* A run has ended with both of its items marked processed, the first
\* after its record was inserted and the second as a duplicate of it.
C21_Witness ==
    /\ pc = "done" /\ ~cfg.dry_run /\ Len(docs) = 2
    /\ source[docs[1]].processed /\ source[docs[2]].processed
    /\ RecordsOf(docs[1]) # {} /\ RecordsOf(docs[2]) = {}
    /\ docs[2] \in DupIds

\* The documents that a filtered query finds among the first p.
MatchesUpTo(src, p) == {d \in 1..p : ProcessedIsFalse(src[d])}

\* Where a scan that stops as soon as limit matches are collected stops.
StopsAt(src, limit) ==
    IF \E p \in 0..NumDocs : Cardinality(MatchesUpTo(src, p)) >= limit
    THEN CHOOSE p \in 0..NumDocs :
            /\ Cardinality(MatchesUpTo(src, p)) >= limit
            /\ \A q \in 0..(p - 1) : Cardinality(MatchesUpTo(src, q)) < limit
    ELSE NumDocs

\* C22 as claimed: the fetch returns at most limit documents, each with
\* processed == false, by the filtered query and by the full scan alike;
\* the full scan selects what the filtered query would and stops as soon as
\* limit matches are collected.
C22_FetchAtMostLimitUnprocessed ==
    Returned("fetch")
        => LET src == call.arg.src
               limit == call.arg.limit
           IN  /\ Len(call.out.docs) <= limit
               /\ \A i \in DOMAIN call.out.docs : ProcessedIsFalse(src[call.out.docs[i]])
               /\ call.out.docs = FilteredQuery(src, limit, 1)
               /\ ~call.arg.queryOk => call.out.reads = StopsAt(src, limit)

\* C23: a step of a run changes the stores in two ways only: it appends a
\* record to the destination collection, or it sets the processed flag of
\* a document fetched in that run from false to true.  No source document
\* is deleted or has another field changed, no flag goes back to false, no
\* existing destination record is changed or removed, and the step of the
\* Rewrite Transform changes neither store.
C23_OnlyAppendAndMark ==
    [][/\ DOMAIN source' = DOMAIN source
       /\ \A d \in DOMAIN source :
            /\ source'[d].link = source[d].link
            /\ source'[d].title = source[d].title
            /\ source[d].processed => source'[d].processed
            /\ source'[d] # source[d]
                => /\ pc \in Running
                   /\ d \in Range(docs)
                   /\ ~source[d].processed /\ source'[d].processed
       /\ Len(dest') >= Len(dest)
       /\ SubSeq(dest', 1, Len(dest)) = dest
       /\ dest' # dest => pc \in Running /\ Len(dest') = Len(dest) + 1
       /\ pc = "rewrite" => source' = source /\ dest' = dest]_vars

\* A second run has ended after both kinds of write: it found a record in
\* the destination, appended one, and marked a document that was
\* unprocessed when it started.
C23_Witness ==
    /\ pc = "done" /\ runs = 2
    /\ hist.dest0 # << >>
    /\ Len(dest) = Len(hist.dest0) + 1
    /\ SubSeq(dest, 1, Len(hist.dest0)) = hist.dest0
    /\ \E d \in Range(docs) : source[d].processed /\ ~hist.src0[d].processed
    /\ hist.transformed # {}

\* The destination records inserted by the current run.
NewRecords == (Len(hist.dest0) + 1)..Len(dest)

\* C24 as claimed: at the end of a non-dry-run batch the processed counter
\* is the number of destination records inserted by that run.
C24_Original ==
    (pc = "done" /\ ~cfg.dry_run) => processed_count = Cardinality(NewRecords)

\* C24 as amended: at the end of a non-dry-run batch the processed counter
\* is the number of records inserted by that run for items that did not end
\* as error.  Every item reported as processed has exactly one inserted
\* record, and every inserted record belongs to a fetched item that went
\* through the transform: one reported as processed, or one reported as
\* error because its source update or static export raised after the
\* insert.
C24_ProcessedCountsCleanInserts ==
    (pc = "done" /\ ~cfg.dry_run)
        => /\ processed_count
                = Cardinality({k \in NewRecords : dest[k].src \notin hist.errIds})
           /\ processed_count = Cardinality(hist.transformed \ hist.errIds)
           /\ \A id \in hist.transformed \ hist.errIds :
                Cardinality({k \in NewRecords : dest[k].src = id}) = 1
           /\ \A k \in NewRecords : dest[k].src \in hist.transformed
           /\ Cardinality(NewRecords) <= processed_count + error_count

\* A run of two items has ended with two inserted records and one item
\* reported as processed: the source update of the other one raised.
C24_Witness ==
    /\ pc = "done" /\ ~cfg.dry_run /\ ~cfg.write_static
    /\ Len(docs) = 2
    /\ Cardinality(NewRecords) = 2
    /\ processed_count = 1 /\ error_count = 1

AllProcessed == \A d \in Docs : source[d].processed

\* A run that started when every source document was processed has ended.
IdleRunEnded == pc = "done" /\ \A d \in Docs : hist.src0[d].processed

\* C25: when non-dry-run invocations with a limit of at least 1 are
\* repeated and neither a transform nor a store write fails, every source
\* document is eventually processed and stays so; an invocation made from
\* then on comes to its end, and it has fetched no document, created no
\* destination record and counted 0 processed, 0 duplicates and 0 errors.
C25_EventuallyDrained ==
    /\ <>[]AllProcessed
    /\ AllProcessed ~> IdleRunEnded
    /\ [](IdleRunEnded
            => /\ docs = << >>
               /\ dest = hist.dest0
               /\ Counters = <<0, 0, 0>>)

\* Both documents were processed by earlier runs, and a later run has ended
\* with nothing fetched and nothing counted.
C25_Witness ==
    /\ IdleRunEnded /\ AllProcessed
    /\ docs = << >> /\ Counters = <<0, 0, 0>>
    /\ Len(dest) >= 1 /\ dest = hist.dest0
    /\ runs = MaxRuns

\* The records of the current run that were exported: the run writes
\* static files, and the item did not end as error.
Exported == IF cfg.write_static
            THEN {k \in NewRecords : dest[k].src \notin hist.errIds}
            ELSE {}

\* C26 as claimed: no two destination records have the same slug or the
\* same canonical URL, and no two records exported by a run are written
\* to the same file.
C26_SlugsDistinct ==
    /\ \A j, k \in DOMAIN dest :
        j # k => /\ SlugOf(dest[j]) # SlugOf(dest[k])
                 /\ canonical(SlugOf(dest[j])) # canonical(SlugOf(dest[k]))
    /\ pc = "done" => \A j, k \in Exported : j # k => out_path(dest[j]) # out_path(dest[k])
====
